---- MODULE Spec2Model ----
(***************************************************************************)
(* Model of seismic_websocket.py: the reconnect loop of start_websocket,   *)
(* the per-message pipeline process_message -> get_location ->             *)
(* save_to_csv, and the CSV store.                                          *)
(*                                                                          *)
(* Python values are encoded uniformly as functions on strings: a dict is  *)
(* a function from its keys to values, None and scalars are tagged records *)
(* carrying the key "py".  A list (the coordinates array) is a sequence.   *)
(***************************************************************************)
EXTENDS Integers, Sequences, FiniteSets, TLC

VARIABLES
    pc,            \* where start_websocket is: "create", "run", "sleep",
                   \* "stopped" (returned) or "crashed" (an exception escaped)
    conn,          \* the connection inside run_forever: "none", "connecting", "open"
    csv,           \* the lines of CSV_FILE, the header first
    h,             \* the handling of the last message, << >> when the last
                   \* step was no message
    logs,          \* the log records emitted by the last step
    last,          \* the name of the last step
    endedBy,       \* how the last connection ended: "none", "returned", "raised"
    slept,         \* seconds slept since the last connection ended
    attemptDelay,  \* the value of slept at the last connection attempt
    failures,      \* consecutive connections that ended without opening (saturating)
    interrupted,   \* a KeyboardInterrupt has arrived
    inflight,      \* the messages whose handler has been entered and has not
                   \* returned, the oldest first
    preload,       \* what was at CSV_FILE before the module was last loaded
    start,         \* the lines of CSV_FILE right after the last load
    created,       \* a load of the module has created CSV_FILE
    nSaved,        \* successful save_to_csv calls since the last load
    rowsThisConn   \* lines written since the connection was opened

vars == <<pc, conn, csv, h, logs, last, endedBy, slept, attemptDelay, failures,
          interrupted, inflight, preload, start, created, nSaved, rowsThisConn>>

(* ------------------------------ bounds --------------------------------- *)
MaxRows == 2
MaxFailures == 2

(* -------------------------- program constants -------------------------- *)
\* line 131: time.sleep(5)
RECONNECT_DELAY == 5

(* --------------------------- Python values ----------------------------- *)
None == [py |-> "None"]
JS(s) == [py |-> "str", v |-> s]
JN(s) == [py |-> "num", v |-> s]
EmptyDict == [k \in {} |-> None]

IsDict(v) == "py" \notin DOMAIN v
IsStr(v) == ("py" \in DOMAIN v) /\ v.py = "str"

\* Python truthiness of None, a dict or a string
Truthy(v) ==
    IF IsDict(v) THEN DOMAIN v # {}
    ELSE IF v.py = "None" THEN FALSE
    ELSE v.v # ""

\* the result of evaluating an expression: a value or a raised exception
Ok(v) == [raised |-> "none", value |-> v]
Raise(e) == [raised |-> e, value |-> None]

\* class Exception and its subclasses; KeyboardInterrupt is a BaseException
\* that is not an Exception
IsException(e) == e \notin {"none", "KeyboardInterrupt"}

\* d[k]
Subscript(r, k) ==
    IF r.raised # "none" THEN r
    ELSE IF ~IsDict(r.value) THEN Raise("TypeError")
    ELSE IF k \notin DOMAIN r.value THEN Raise("KeyError")
    ELSE Ok(r.value[k])

\* lst[i], with Python's 0-based index on a list
Index(r, i) ==
    IF r.raised # "none" THEN r
    ELSE IF i >= Len(r.value) THEN Raise("IndexError")
    ELSE Ok(r.value[i + 1])

\* d.get(k, default) on a dict; on None it raises AttributeError
DictGet(d, k, default) ==
    IF k \in DOMAIN d THEN d[k] ELSE default

\* d[k] = v
DictSet(d, k, v) ==
    [j \in DOMAIN d \cup {k} |-> IF j = k THEN v ELSE d[j]]

(* ------------------------------ the store ------------------------------ *)
COLUMNS == <<"action", "auth", "unid", "time", "mag", "flynn_region",
             "latitude", "longitude", "city", "state", "country">>

\* pandas to_csv writes None as the empty field and a scalar as its text
CsvField(v) == IF v = None THEN "" ELSE v.v

\* DataFrame([event_data]).to_csv(header=False): the values in key order
CsvRow(event_data) == [i \in 1..Len(event_data) |-> CsvField(event_data[i][2])]

\* the header written without asking whether the file exists
initialize_unconditional(file) == [exists |-> TRUE, lines |-> <<COLUMNS>>]

\* lines 19-20: the header is written when no file exists at CSV_FILE
initialize(file) ==
    IF ~file.exists THEN [exists |-> TRUE, lines |-> <<COLUMNS>>]
    ELSE file

(* ------------------------------- logging ------------------------------- *)
Log(level, event) == [level |-> level, event |-> event]

(* --------------------------- get_location ------------------------------ *)
EmptyLocation == <<JS(""), JS(""), JS("")>>

\* geolocator.reverse((lat, lon), exactly_one=True, timeout=10): what the
\* lookup service does is the input geo
reverse(query, geo) ==
    IF geo.raises # "none" THEN Raise(geo.raises) ELSE Ok(geo.location)

\* the fallback of city tried in the order village, town
extract_address_village_first(raw) ==
    LET address == DictGet(raw, "address", EmptyDict)
    IN  IF ~IsDict(address) THEN Raise("AttributeError")
        ELSE Ok(<<DictGet(address, "city",
                      DictGet(address, "village",
                          DictGet(address, "town", JS("")))),
                  DictGet(address, "state", JS("")),
                  DictGet(address, "country", JS(""))>>)

\* lines 29-33: the fields taken from location.raw
extract_address(raw) ==
    LET address == DictGet(raw, "address", EmptyDict)
    IN  IF ~IsDict(address) THEN Raise("AttributeError")
        ELSE Ok(<<DictGet(address, "city",
                      DictGet(address, "town",
                          DictGet(address, "village", JS("")))),
                  DictGet(address, "state", JS("")),
                  DictGet(address, "country", JS(""))>>)

\* get_location without the clause `except Exception`
get_location_except_timeout_only(e) ==
    IF e = "GeocoderTimedOut" THEN "WARNING" ELSE "propagate"

\* get_location whose timeout clause raises again
get_location_except_reraise(e) ==
    IF e = "GeocoderTimedOut" THEN "propagate"
    ELSE IF IsException(e) THEN "ERROR"
    ELSE "propagate"

\* lines 34-37: the except clauses of get_location
get_location_except(e) ==
    IF e = "GeocoderTimedOut" THEN "WARNING"
    ELSE IF IsException(e) THEN "ERROR"
    ELSE "propagate"

get_location(lat, lon, geo) ==
    LET query == <<lat, lon>>
        location == reverse(query, geo)
        body ==
            IF location.raised # "none" THEN Raise(location.raised)
            ELSE IF Truthy(location.value) /\ Truthy(location.value.raw)
                 THEN extract_address(location.value.raw)
                 ELSE Ok(EmptyLocation)
        handler == get_location_except(body.raised)
    IN  IF body.raised = "none"
        THEN [raised |-> "none", value |-> body.value, logs |-> << >>,
              query |-> query]
        ELSE IF handler = "propagate"
        THEN [raised |-> body.raised, value |-> <<None, None, None>>,
              logs |-> << >>, query |-> query]
        ELSE [raised |-> "none", value |-> EmptyLocation,
              logs |-> <<Log(handler, "get_location")>>, query |-> query]

(* ---------------------------- save_to_csv ------------------------------ *)
\* save_to_csv without its try/except
save_to_csv_except_absent(e) == "propagate"

\* lines 48-49: the except clause of save_to_csv
save_to_csv_except(e) ==
    IF IsException(e) THEN "ERROR" ELSE "propagate"

\* to_csv with its default header=True
to_csv_lines_header(event_data) ==
    <<[i \in 1..Len(event_data) |-> event_data[i][1]], CsvRow(event_data)>>

\* line 46: the lines to_csv(header=False, index=False) produces
to_csv_lines(event_data) == <<CsvRow(event_data)>>

\* a store that skips a line it already holds
append_dedup(lines, written) ==
    IF written # << >> /\ \E i \in 1..Len(lines) : lines[i] = written[1]
    THEN lines
    ELSE lines \o written

\* line 46: mode='a' puts the produced lines at the end of the file
append(lines, written) == lines \o written

\* io is what the file system does on the append: "none" or an exception;
\* written are the lines to_csv adds to the file
save_to_csv(event_data, io) ==
    IF io = "none"
    THEN [raised |-> "none", value |-> None,
          written |-> to_csv_lines(event_data),
          logs |-> <<Log("INFO", "saved")>>]
    ELSE IF save_to_csv_except(io) = "propagate"
    THEN [raised |-> io, value |-> None, written |-> << >>, logs |-> << >>]
    ELSE [raised |-> "none", value |-> None, written |-> << >>,
          logs |-> <<Log(save_to_csv_except(io), "save_to_csv")>>]

(* -------------------------- process_message ---------------------------- *)
\* json.loads: a raw message is either text that is no JSON or the text of
\* a JSON document
json_loads(message) ==
    IF message.json THEN Ok(message.doc) ELSE Raise("JSONDecodeError")

\* info['action'] = data.get('action')
set_action_get(info, action) ==
    IF info.raised # "none" THEN info
    ELSE IF ~IsDict(info.value) THEN Raise("TypeError")
    ELSE IF action.raised = "KeyError"
         THEN Ok(DictSet(info.value, "action", None))
    ELSE IF action.raised # "none" THEN action
    ELSE Ok(DictSet(info.value, "action", action.value))

\* info.setdefault('action', data['action'])
set_action_setdefault(info, action) ==
    IF info.raised # "none" THEN info
    ELSE IF action.raised # "none" THEN action
    ELSE IF ~IsDict(info.value) THEN Raise("TypeError")
    ELSE IF "action" \in DOMAIN info.value THEN info
    ELSE Ok(DictSet(info.value, "action", action.value))

\* line 59: info['action'] = data['action']
set_action(info, action) ==
    IF info.raised # "none" THEN info
    ELSE IF action.raised # "none" THEN action
    ELSE IF ~IsDict(info.value) THEN Raise("TypeError")
    ELSE Ok(DictSet(info.value, "action", action.value))

\* the latitude read from the first element
LatitudeIndexFirst == 0

\* line 60: the index of the latitude in the coordinates array
LatitudeIndex == 1
\* line 61: the index of the longitude in the coordinates array
LongitudeIndex == 0

\* line 63: the arguments of the lookup call
location_args(latitude, longitude) == <<latitude, longitude>>

\* the record with longitude put before latitude
build_event_data_longitude_first(info, latitude, longitude, loc) ==
    << <<"action", DictGet(info, "action", None)>>,
       <<"auth", DictGet(info, "auth", None)>>,
       <<"unid", DictGet(info, "unid", None)>>,
       <<"time", DictGet(info, "time", None)>>,
       <<"mag", DictGet(info, "mag", None)>>,
       <<"flynn_region", DictGet(info, "flynn_region", None)>>,
       <<"longitude", longitude>>,
       <<"latitude", latitude>>,
       <<"city", loc[1]>>,
       <<"state", loc[2]>>,
       <<"country", loc[3]>> >>

\* lines 65-77: the record, its keys in insertion order
build_event_data(info, latitude, longitude, loc) ==
    << <<"action", DictGet(info, "action", None)>>,
       <<"auth", DictGet(info, "auth", None)>>,
       <<"unid", DictGet(info, "unid", None)>>,
       <<"time", DictGet(info, "time", None)>>,
       <<"mag", DictGet(info, "mag", None)>>,
       <<"flynn_region", DictGet(info, "flynn_region", None)>>,
       <<"latitude", latitude>>,
       <<"longitude", longitude>>,
       <<"city", loc[1]>>,
       <<"state", loc[2]>>,
       <<"country", loc[3]>> >>

\* process_message catching the JSON error only
process_message_except_json_only(e) ==
    IF e = "JSONDecodeError" THEN "ERROR" ELSE "propagate"

\* lines 80-81: the except clause of process_message
process_message_except(e) ==
    IF IsException(e) THEN "ERROR" ELSE "propagate"

\* the exception that ends lines 58-61, in the order of evaluation
first_raised(info, latitude, longitude) ==
    IF info.raised # "none" THEN info.raised
    ELSE IF latitude.raised # "none" THEN latitude.raised
    ELSE longitude.raised

parsed_fields(info, latitude, longitude) ==
    [raised |-> first_raised(info, latitude, longitude),
     info |-> info.value,
     latitude |-> latitude.value,
     longitude |-> longitude.value]

\* lines 58-61
parse(data) ==
    parsed_fields(
        set_action(Subscript(Subscript(data, "data"), "properties"),
                   Subscript(data, "action")),
        Index(Subscript(Subscript(Subscript(data, "data"), "geometry"),
                        "coordinates"), LatitudeIndex),
        Index(Subscript(Subscript(Subscript(data, "data"), "geometry"),
                        "coordinates"), LongitudeIndex))

\* line 63
locate(p, args, geo) == get_location(args[1], args[2], geo)

\* lines 56-81 put together: p is the outcome of lines 57-61, loc of line 63,
\* event_data of lines 65-77 and saved of line 79
handled(p, loc, event_data, saved, io) ==
    LET parsed == p.raised = "none"
        called == parsed /\ loc.raised = "none"
        raised == IF ~parsed THEN p.raised
                  ELSE IF ~called THEN loc.raised
                  ELSE saved.raised
        caught == raised # "none" /\ process_message_except(raised) # "propagate"
    IN  [escaped |-> IF raised # "none" /\ ~caught THEN raised ELSE "none",
         caught |-> IF caught THEN raised ELSE "none",
         written |-> IF called THEN saved.written ELSE << >>,
         logs |-> (IF parsed THEN loc.logs ELSE << >>)
                  \o (IF called THEN saved.logs ELSE << >>)
                  \o (IF caught
                      THEN <<Log(process_message_except(raised),
                                 "process_message")>>
                      ELSE << >>),
         queries |-> IF parsed THEN <<loc.query>> ELSE << >>,
         located |-> IF parsed
                     THEN <<[raised |-> loc.raised, value |-> loc.value,
                             logs |-> loc.logs]>>
                     ELSE << >>,
         submitted |-> IF called THEN <<event_data>> ELSE << >>,
         saveRet |-> IF called /\ saved.raised = "none"
                     THEN <<saved.value>> ELSE << >>,
         saveRaised |-> IF called THEN io ELSE "none"]

\* lines 65-79
build_and_save(p, loc, event_data, io) ==
    handled(p, loc, event_data, save_to_csv(event_data, io), io)

enrich_and_save(p, loc, io) ==
    build_and_save(p, loc,
                   build_event_data(p.info, p.latitude, p.longitude, loc.value),
                   io)

parse_and_save(p, geo, io) ==
    enrich_and_save(p, locate(p, location_args(p.latitude, p.longitude), geo),
                    io)

process_message(message, geo, io) ==
    parse_and_save(parse(json_loads(message)), geo, io)

\* lines 84-88
on_message(message, geo, io) == process_message(message, geo, io)

(* ------------------------------- inputs -------------------------------- *)
Coords1 == <<JN("23.7"), JN("37.9")>>
Coords2 == <<JN("-70.6"), JN("-33.4")>>

Props1 == [auth |-> JS("EMSC"), unid |-> JS("x1"),
           time |-> JS("2024-01-01T00:00:00Z"), mag |-> JN("4.5"),
           flynn_region |-> JS("AEGEAN SEA")]
\* optional properties absent, and an action key of its own
Props2 == [unid |-> JS("x2"), action |-> JS("inner")]

Doc(action, props, coords) ==
    [action |-> action,
     data |-> [properties |-> props, geometry |-> [coordinates |-> coords]]]

Text(doc) == [json |-> TRUE, doc |-> doc]

Msg1 == Text(Doc(JS("create"), Props1, Coords1))
Msg2 == Text(Doc(JS("update"), Props2, Coords2))

WellFormedMessages == {Msg1, Msg2}

MalformedMessages ==
    { [json |-> FALSE, doc |-> None],
      Text(None),
      Text([data |-> [properties |-> Props1,
                      geometry |-> [coordinates |-> Coords1]]]),
      Text([action |-> JS("create")]),
      Text([action |-> JS("create"),
            data |-> [geometry |-> [coordinates |-> Coords1]]]),
      Text([action |-> JS("create"),
            data |-> [properties |-> None,
                      geometry |-> [coordinates |-> Coords1]]]),
      Text([action |-> JS("create"), data |-> [properties |-> Props1]]),
      Text([action |-> JS("create"),
            data |-> [properties |-> Props1, geometry |-> EmptyDict]]),
      Text(Doc(JS("create"), Props1, <<JN("23.7")>>)),
      Text(Doc(JS("create"), Props1, << >>)) }

Messages == WellFormedMessages \cup MalformedMessages

\* the shape of a feed message: an object with action, data.properties (an
\* object) and data.geometry.coordinates (an array of two)
WellFormed(m) ==
    /\ m.json
    /\ IsDict(m.doc)
    /\ {"action", "data"} \subseteq DOMAIN m.doc
    /\ IsDict(m.doc.data)
    /\ {"properties", "geometry"} \subseteq DOMAIN m.doc.data
    /\ IsDict(m.doc.data.properties)
    /\ IsDict(m.doc.data.geometry)
    /\ "coordinates" \in DOMAIN m.doc.data.geometry
    /\ Len(m.doc.data.geometry.coordinates) >= 2

Found(raw) == [raises |-> "none", location |-> [raw |-> raw]]
Address(a) == [place_id |-> JN("1"), address |-> a]

GeoTimeout == [raises |-> "GeocoderTimedOut", location |-> None]
GeoError == [raises |-> "GeocoderServiceError", location |-> None]
GeoNoResult == [raises |-> "none", location |-> None]
GeoFull == Found(Address([city |-> JS("Athens"), state |-> JS("Attica"),
                          country |-> JS("Greece")]))
GeoPartial == Found(Address([town |-> JS("Oia"), country |-> JS("Greece")]))
GeoNullCity == Found(Address([city |-> None, state |-> JS("Attica"),
                              country |-> JS("Greece")]))

GeoOutcomes ==
    { GeoTimeout, GeoError, GeoNoResult,
      Found(EmptyDict),
      Found([place_id |-> JN("1")]),
      Found(Address(None)),
      GeoFull, GeoNullCity }

IoOutcomes == {"none", "OSError"}

\* what may be at CSV_FILE when the module is loaded
Absent == [exists |-> FALSE, lines |-> << >>]
PreFiles ==
    { Absent,
      [exists |-> TRUE, lines |-> <<COLUMNS>>],
      [exists |-> TRUE,
       lines |-> <<COLUMNS, CsvRow(build_event_data(
                     DictSet(Props1, "action", JS("create")),
                     Coords1[2], Coords1[1], EmptyLocation))>>] }

(* ------------------------- the state machine --------------------------- *)
Min(a, b) == IF a < b THEN a ELSE b

\* the handler applied to every input, evaluated once
Handlings ==
    [message \in Messages |->
        [geo \in GeoOutcomes |->
            [io \in IoOutcomes |-> on_message(message, geo, io)]]]

\* lines 11-20: the module is loaded with file at CSV_FILE
Loaded(file) ==
    /\ preload = file
    /\ csv = initialize(file).lines
    /\ start = csv
    /\ pc = "create"
    /\ conn = "none"
    /\ h = << >>
    /\ logs = << >>
    /\ last = "Load"
    /\ endedBy = "none"
    /\ slept = 0
    /\ attemptDelay = 0
    /\ failures = 0
    /\ interrupted = FALSE
    /\ inflight = << >>
    /\ nSaved = 0
    /\ rowsThisConn = 0

Init ==
    \E file \in PreFiles :
        /\ Loaded(file)
        /\ created = ~file.exists

\* lines 11-20 again: the program has ended and is started once more, with
\* the file it left behind
Load ==
    /\ pc \in {"stopped", "crashed"}
    /\ preload' = [exists |-> TRUE, lines |-> csv]
    /\ csv' = initialize([exists |-> TRUE, lines |-> csv]).lines
    /\ start' = csv'
    /\ pc' = "create"
    /\ conn' = "none"
    /\ h' = << >>
    /\ logs' = << >>
    /\ last' = "Load"
    /\ endedBy' = "none"
    /\ slept' = 0
    /\ attemptDelay' = 0
    /\ failures' = 0
    /\ interrupted' = FALSE
    /\ inflight' = << >>
    /\ nSaved' = 0
    /\ rowsThisConn' = 0
    /\ UNCHANGED created

\* a loop that gives up after MaxFailures consecutive failures
while_retries_left(n) == n < MaxFailures

\* line 116: the loop condition of start_websocket
while_condition(n) == TRUE

\* lines 116-125: the next iteration creates the WebSocketApp and enters
\* run_forever
Connect ==
    /\ pc = "create"
    /\ IF while_condition(failures)
       THEN /\ pc' = "run"
            /\ conn' = "connecting"
            /\ attemptDelay' = slept
       ELSE /\ pc' = "stopped"
            /\ UNCHANGED <<conn, attemptDelay>>
    /\ h' = << >>
    /\ logs' = << >>
    /\ last' = "Connect"
    /\ UNCHANGED <<csv, endedBy, slept, failures, interrupted, inflight,
                   preload, start, created, nSaved, rowsThisConn>>

\* lines 105-109
on_open ==
    /\ pc = "run" /\ conn = "connecting"
    /\ conn' = "open"
    /\ failures' = 0
    /\ h' = << >>
    /\ logs' = <<Log("INFO", "on_open")>>
    /\ last' = "on_open"
    /\ rowsThisConn' = 0
    /\ UNCHANGED <<pc, csv, endedBy, slept, attemptDelay, interrupted, inflight,
                   preload, start, created, nSaved>>

\* a handler that hands the message to a thread of its own
handler_returned_threaded(handling) == Len(handling) < 2

\* line 88: on_message calls process_message and returns when it has
\* returned; the next message is read after that
handler_returned(handling) == handling = << >>

\* line 84: a message arrives and on_message is entered
Receive ==
    /\ pc = "run" /\ conn = "open"
    /\ handler_returned(inflight)
    /\ Len(csv) - 1 < MaxRows
    /\ \E message \in Messages : inflight' = Append(inflight, message)
    /\ h' = << >>
    /\ logs' = << >>
    /\ last' = "Receive"
    /\ UNCHANGED <<pc, conn, csv, endedBy, slept, attemptDelay, failures,
                   interrupted, preload, start, created, nSaved, rowsThisConn>>

\* lines 84-88 and 52-81: the handler of a message runs to its end; geo and
\* io are what the lookup service and the file system do meanwhile
OnMessage ==
    /\ pc = "run" /\ conn = "open"
    /\ \E i \in 1..Len(inflight), geo \in GeoOutcomes, io \in IoOutcomes :
         LET message == inflight[i]
             r == Handlings[message][geo][io]
         IN  /\ inflight' = SubSeq(inflight, 1, i - 1)
                            \o SubSeq(inflight, i + 1, Len(inflight))
             /\ nSaved' = IF r.submitted # << >> /\ io = "none"
                          THEN nSaved + 1 ELSE nSaved
             /\ rowsThisConn' = rowsThisConn + Len(r.written)
             /\ h' = <<[message |-> message,
                        geo |-> IF r.queries # << >> THEN <<geo>> ELSE << >>,
                        io |-> IF r.submitted # << >> THEN <<io>> ELSE << >>,
                        before |-> csv,
                        r |-> r]>>
             /\ csv' = append(csv, r.written)
             /\ IF r.escaped = "none"
                THEN /\ logs' = r.logs
                     /\ UNCHANGED <<pc, conn, endedBy, slept>>
                ELSE \* the exception leaves run_forever: lines 129-131
                     /\ logs' = r.logs \o <<Log("ERROR", "reconnecting")>>
                     /\ pc' = "sleep"
                     /\ conn' = "none"
                     /\ endedBy' = "raised"
                     /\ slept' = 0
    /\ last' = "OnMessage"
    /\ UNCHANGED <<attemptDelay, failures, interrupted, preload, start, created>>

\* lines 91-102 and 125: the connection fails or is closed, the library
\* calls on_error and/or on_close and run_forever returns; the loop of
\* line 116 goes on to its next iteration
RunReturns ==
    /\ pc = "run"
    /\ inflight = << >>
    /\ \E error \in BOOLEAN :
         logs' = IF error
                 THEN <<Log("ERROR", "on_error"), Log("INFO", "on_close")>>
                 ELSE <<Log("INFO", "on_close")>>
    /\ pc' = "create"
    /\ conn' = "none"
    /\ endedBy' = "returned"
    /\ slept' = 0
    /\ failures' = IF conn = "connecting"
                   THEN Min(failures + 1, MaxFailures) ELSE failures
    /\ h' = << >>
    /\ last' = "RunReturns"
    /\ UNCHANGED <<csv, attemptDelay, interrupted, inflight, preload, start,
                   created, nSaved, rowsThisConn>>

\* lines 129-130: run_forever raises an Exception
RunRaises ==
    /\ pc = "run"
    /\ inflight = << >>
    /\ logs' = <<Log("ERROR", "reconnecting")>>
    /\ pc' = "sleep"
    /\ conn' = "none"
    /\ endedBy' = "raised"
    /\ slept' = 0
    /\ failures' = IF conn = "connecting"
                   THEN Min(failures + 1, MaxFailures) ELSE failures
    /\ h' = << >>
    /\ last' = "RunRaises"
    /\ UNCHANGED <<csv, attemptDelay, interrupted, inflight, preload, start,
                   created, nSaved, rowsThisConn>>

\* line 131: time.sleep(5) returns
Sleep ==
    /\ pc = "sleep"
    /\ slept' = RECONNECT_DELAY
    /\ pc' = "create"
    /\ h' = << >>
    /\ logs' = << >>
    /\ last' = "Sleep"
    /\ UNCHANGED <<conn, csv, endedBy, attemptDelay, failures, interrupted,
                   inflight, preload, start, created, nSaved, rowsThisConn>>

\* lines 126-128: KeyboardInterrupt inside the try block
InterruptInTry ==
    /\ pc \in {"create", "run"}
    /\ interrupted' = TRUE
    /\ logs' = <<Log("INFO", "shutdown")>>
    /\ pc' = "stopped"
    /\ conn' = "none"
    /\ h' = << >>
    /\ last' = "InterruptInTry"
    /\ inflight' = << >>
    /\ UNCHANGED <<csv, endedBy, slept, attemptDelay, failures, preload, start,
                   created, nSaved, rowsThisConn>>

\* lines 129-131: KeyboardInterrupt while the handler of `except Exception`
\* runs (time.sleep); no except clause of the same try statement covers it
InterruptInHandler ==
    /\ pc = "sleep"
    /\ interrupted' = TRUE
    /\ logs' = << >>
    /\ pc' = "crashed"
    /\ h' = << >>
    /\ last' = "InterruptInHandler"
    /\ UNCHANGED <<conn, csv, endedBy, slept, attemptDelay, failures, inflight,
                   preload, start, created, nSaved, rowsThisConn>>

Next ==
    \/ Connect
    \/ on_open
    \/ Receive
    \/ OnMessage
    \/ RunReturns
    \/ RunRaises
    \/ Sleep
    \/ InterruptInTry
    \/ InterruptInHandler
    \/ Load

Spec == Init /\ [][Next]_vars

\* the loop of start_websocket is code that runs: its own steps are taken
FairSpec == Spec /\ WF_vars(Connect) /\ WF_vars(Sleep)

TypeOK ==
    /\ pc \in {"create", "run", "sleep", "stopped", "crashed"}
    /\ conn \in {"none", "connecting", "open"}
    /\ Len(csv) >= 1 /\ Len(csv) - 1 <= MaxRows
    /\ Len(h) <= 1
    /\ endedBy \in {"none", "returned", "raised"}
    /\ slept \in {0, RECONNECT_DELAY}
    /\ attemptDelay \in {0, RECONNECT_DELAY}
    /\ failures \in 0..MaxFailures
    /\ interrupted \in BOOLEAN
    /\ Len(inflight) <= 1
    /\ created \in BOOLEAN
    /\ nSaved \in 0..MaxRows
    /\ rowsThisConn \in 0..MaxRows

(* ----------------------- get_location on its own ---------------------- *)
AddressKeys == {"city", "town", "village", "state", "country"}

\* every address that has any of the five keys, each with a name of its own
\* or with null
Addresses ==
    { [k \in pn[1] |-> IF k \in pn[2] THEN None ELSE JS(k)] :
        pn \in { qn \in (SUBSET AddressKeys) \X (SUBSET AddressKeys) :
                    qn[2] \subseteq qn[1] } }

LookupInputs == GeoOutcomes \cup {GeoPartial} \cup { Found(Address(a)) : a \in Addresses }

LookupInit ==
    /\ \E geo \in LookupInputs : h = <<[geo |-> geo, result |-> << >>]>>
    /\ pc = "lookup"
    /\ last = "Load"
    /\ conn = "none"
    /\ csv = <<COLUMNS>>
    /\ logs = << >>
    /\ endedBy = "none"
    /\ slept = 0
    /\ attemptDelay = 0
    /\ failures = 0
    /\ interrupted = FALSE
    /\ inflight = << >>
    /\ preload = Absent
    /\ start = <<COLUMNS>>
    /\ created = TRUE
    /\ nSaved = 0
    /\ rowsThisConn = 0

\* lines 22-38: get_location is called for the coordinates of Coords1
Lookup ==
    /\ pc = "lookup"
    /\ LET r == get_location(Coords1[2], Coords1[1], h[1].geo)
       IN  /\ h' = <<[geo |-> h[1].geo, result |-> <<r>>]>>
           /\ logs' = r.logs
    /\ pc' = "located"
    /\ last' = "get_location"
    /\ UNCHANGED <<conn, csv, endedBy, slept, attemptDelay, failures,
                   interrupted, inflight, preload, start, created, nSaved,
                   rowsThisConn>>

LookupNext == Lookup

LookupSpec == LookupInit /\ [][LookupNext]_vars

(* ------------------------------ properties ----------------------------- *)
Handled == last = "OnMessage"
H == h[1]

\* C1: whatever the message, the lookup outcome and the write outcome, no
\* exception leaves on_message; an exception raised while handling is caught
\* and logged by process_message, and the connection is still open and
\* inside run_forever, ready for the next message
C1_HandlerNeverRaises ==
    Handled =>
        /\ H.r.escaped = "none"
        /\ H.r.caught # "none" =>
              /\ Len(logs) >= 1
              /\ logs[Len(logs)] = Log("ERROR", "process_message")
        /\ pc = "run" /\ conn = "open"

C1_Witness ==
    /\ Handled
    /\ ~H.message.json
    /\ H.r.caught = "JSONDecodeError"
    /\ pc = "run" /\ conn = "open"

\* C2: a malformed message leaves the store as it was: no record is
\* submitted and no line is written
C2_MalformedAppendsNothing ==
    (Handled /\ ~WellFormed(H.message)) =>
        /\ csv = H.before
        /\ H.r.submitted = << >>
        /\ H.r.written = << >>

C2_Witness ==
    /\ Handled
    /\ H.message.json /\ IsDict(H.message.doc)
    /\ "action" \notin DOMAIN H.message.doc
    /\ Len(H.before) > 1
    /\ csv = H.before

\* C3: every connection attempt that follows the end of a connection is
\* made after the 5-second delay has elapsed
C3_DelayBeforeEveryReconnect ==
    (pc = "run" /\ endedBy # "none") => attemptDelay = RECONNECT_DELAY

\* C4: once an interrupt has arrived, start_websocket has logged the
\* shutdown and returned
C4_InterruptReturnsCleanly ==
    interrupted =>
        /\ pc = "stopped"
        /\ logs = <<Log("INFO", "shutdown")>>

\* C5: whenever start_websocket is not inside a connection (before the next
\* iteration or in the reconnect delay), it makes another connection
\* attempt, unless an interrupt arrives
C5_ReconnectUnbounded ==
    (pc \in {"create", "sleep"}) ~> (pc = "run" \/ interrupted)

C5_Witness ==
    /\ pc = "run"
    /\ failures = MaxFailures
    /\ endedBy # "none"
    /\ ~interrupted

\* C6: get_location returns a triple and raises nothing for every lookup
\* outcome; a timeout is logged as a warning, any other exception as an
\* error, and both give ("", "", "")
C6_LocationNeverRaises ==
    (Handled /\ H.geo # << >>) =>
        LET geo == H.geo[1]
            l == H.r.located[1]
            inner == geo.raises = "none" /\ geo.location # None
                     /\ "address" \in DOMAIN geo.location.raw
                     /\ ~IsDict(geo.location.raw.address)
        IN  /\ l.raised = "none"
            /\ Len(l.value) = 3
            /\ geo.raises = "GeocoderTimedOut" =>
                  /\ l.logs = <<Log("WARNING", "get_location")>>
                  /\ l.value = <<JS(""), JS(""), JS("")>>
            /\ (geo.raises \notin {"none", "GeocoderTimedOut"} \/ inner) =>
                  /\ l.logs = <<Log("ERROR", "get_location")>>
                  /\ l.value = <<JS(""), JS(""), JS("")>>

C6_Witness ==
    /\ Handled
    /\ H.geo = <<GeoError>>
    /\ H.r.located[1].logs = <<Log("ERROR", "get_location")>>

\* C7: the record handed to the store has a string in city, state and
\* country
C7_LocationFieldsAreStrings ==
    (Handled /\ H.r.submitted # << >>) =>
        \A i \in 9..11 : IsStr(H.r.submitted[1][i][2])

\* C8: a well-formed message gives exactly one record whatever the lookup
\* does; when the lookup fails the record is the one of a successful lookup
\* with city, state and country emptied
C8_EnrichmentFailureKeepsRecord ==
    (Handled /\ WellFormed(H.message)) =>
        /\ Len(H.r.submitted) = 1
        /\ H.io = <<"none">> => csv = H.before \o <<CsvRow(H.r.submitted[1])>>
        /\ (H.geo[1].raises # "none" \/ H.geo[1].location = None) =>
              LET rec == H.r.submitted[1]
                  ok == Handlings[H.message][GeoFull]["none"].submitted[1]
              IN  /\ Len(rec) = 11
                  /\ \A i \in 1..8 : rec[i] = ok[i]
                  /\ \A i \in 9..11 : rec[i] = <<ok[i][1], JS("")>>
                  /\ \A i \in 9..11 : CsvRow(rec)[i] = ""

C8_Witness ==
    /\ Handled
    /\ H.message = Msg1
    /\ H.geo = <<GeoTimeout>>
    /\ H.io = <<"none">>
    /\ csv[Len(csv)] = <<"create", "EMSC", "x1", "2024-01-01T00:00:00Z",
                         "4.5", "AEGEAN SEA", "37.9", "23.7", "", "", "">>

\* C9: the record's latitude is the second and its longitude the first
\* element of the coordinates array, and the lookup is asked for
\* (latitude, longitude)
C9_CoordinateOrder ==
    (Handled /\ WellFormed(H.message)) =>
        LET coordinates == H.message.doc.data.geometry.coordinates
            rec == H.r.submitted[1]
        IN  /\ rec[7] = <<"latitude", coordinates[2]>>
            /\ rec[8] = <<"longitude", coordinates[1]>>
            /\ H.r.queries = << <<coordinates[2], coordinates[1]>> >>
            /\ H.io = <<"none">> =>
                  /\ csv[Len(csv)][7] = coordinates[2].v
                  /\ csv[Len(csv)][8] = coordinates[1].v

C9_Witness ==
    /\ Handled
    /\ H.message = Msg2
    /\ H.io = <<"none">>
    /\ csv[Len(csv)][7] = "-33.4"
    /\ csv[Len(csv)][8] = "-70.6"
    /\ H.r.queries = << <<JN("-33.4"), JN("-70.6")>> >>

\* C10 as claimed: after a failed write save_to_csv returns something other
\* than what it returns after a successful one
C10_FailureIsReported ==
    (Handled /\ H.io = <<"OSError">>) =>
        H.r.saveRet # Handlings[H.message][H.geo[1]]["none"].saveRet

\* C10 as amended: on a write error save_to_csv logs an error and returns
\* None without raising, as it does after a successful write; the record is
\* not written, nothing is raised in process_message and the connection
\* stays open
C10_FailureIsLoggedAndContained ==
    (Handled /\ H.io = <<"OSError">>) =>
        /\ H.r.saveRet = <<None>>
        /\ H.r.saveRet = Handlings[H.message][H.geo[1]]["none"].saveRet
        /\ logs[Len(logs)] = Log("ERROR", "save_to_csv")
        /\ H.r.caught = "none" /\ H.r.escaped = "none"
        /\ Len(H.r.submitted) = 1
        /\ csv = H.before
        /\ pc = "run" /\ conn = "open"

C10_Witness ==
    /\ Handled
    /\ H.message = Msg1
    /\ H.geo = <<GeoFull>>
    /\ H.io = <<"OSError">>
    /\ csv = H.before
    /\ Len(csv) > 1

Headers == {i \in 1..Len(csv) : csv[i] = COLUMNS}

\* C11: the store is the lines found at load, the header first, followed by
\* one line per successful save_to_csv call; a step either leaves the lines
\* as they are or puts the line of the record just saved after them, and no
\* second header is written
C11_AppendOnly ==
    /\ [](/\ csv[1] = COLUMNS
          /\ Headers = {1}
          /\ SubSeq(csv, 1, Len(start)) = start
          /\ Len(csv) = Len(start) + nSaved
          /\ start = <<COLUMNS>> => Len(csv) = 1 + nSaved)
    /\ [][/\ SubSeq(csv', 1, Len(csv)) = csv
          /\ (last' = "OnMessage" /\ h'[1].io = <<"none">>) =>
                csv' = csv \o <<CsvRow(h'[1].r.submitted[1])>>
          /\ csv' # csv =>
                (last' = "OnMessage" /\ h'[1].io = <<"none">>)]_vars

C11_Witness ==
    /\ Handled
    /\ start = <<COLUMNS>>
    /\ nSaved = 2
    /\ Len(csv) = 3
    /\ csv[2] # csv[3]

\* C12: a load that finds a file leaves it as it is, a load that finds none
\* writes the header alone; however often the module is loaded the store
\* has one header
C12_InitializeIdempotent ==
    /\ Cardinality(Headers) = 1
    /\ last = "Load" =>
          /\ preload.exists => csv = preload.lines
          /\ ~preload.exists => csv = <<COLUMNS>>

C12_Witness ==
    /\ last = "Load"
    /\ created
    /\ preload.exists
    /\ Len(preload.lines) > 1
    /\ csv = preload.lines

LogEvents == {logs[i].event : i \in 1..Len(logs)}
LogLevels == {logs[i].level : i \in 1..Len(logs)}

\* the lookup gave nothing to take city, state and country from
NoUsableResult(geo) ==
    \/ geo.raises # "none"
    \/ geo.location = None
    \/ ~Truthy(geo.location.raw)
    \/ "address" \notin DOMAIN geo.location.raw
    \/ ~IsDict(geo.location.raw.address)

\* C13: every open, close, error and shutdown, every dropped message, every
\* message persisted with city, state and country emptied for want of a
\* lookup result, and every persisted record has a log line of its own
C13_EveryEventIsLogged ==
    /\ last = "on_open" => "on_open" \in LogEvents
    /\ last = "RunReturns" => "on_close" \in LogEvents
    /\ last = "RunRaises" => "reconnecting" \in LogEvents
    /\ last = "InterruptInTry" => "shutdown" \in LogEvents
    /\ Handled =>
          /\ H.r.written = << >> => "ERROR" \in LogLevels
          /\ H.r.written # << >> => "saved" \in LogEvents
          /\ (H.r.submitted # << >> /\ NoUsableResult(H.geo[1])) =>
                "get_location" \in LogEvents

\* C14: from a returned address city is taken from city, else town, else
\* village, else ""; state and country from their own key, else ""; each
\* on its own, and nothing is logged
C14_FieldExtraction ==
    (pc = "located" /\ ~NoUsableResult(h[1].geo)) =>
        LET a == h[1].geo.location.raw.address
            r == h[1].result[1]
        IN  /\ r.raised = "none"
            /\ r.logs = << >>
            /\ r.value[1] = (IF "city" \in DOMAIN a THEN a.city
                             ELSE IF "town" \in DOMAIN a THEN a.town
                             ELSE IF "village" \in DOMAIN a THEN a.village
                             ELSE JS(""))
            /\ r.value[2] = (IF "state" \in DOMAIN a THEN a.state ELSE JS(""))
            /\ r.value[3] = (IF "country" \in DOMAIN a THEN a.country
                             ELSE JS(""))

C14_Witness ==
    /\ pc = "located"
    /\ h[1].geo = Found(Address([town |-> JS("town"),
                                 village |-> JS("village"),
                                 country |-> JS("country")]))
    /\ h[1].result[1].value = <<JS("town"), JS(""), JS("country")>>

\* C15: at most one handler is running at any time: a message is received
\* only when no handler is running; the handler that ends is the one of the
\* message received last, and its line, if it writes one,
\* goes after the lines of all messages received before, on this connection
\* or an earlier one
C15_SequentialHandling ==
    /\ [](Len(inflight) <= 1)
    /\ [][/\ Len(inflight') > Len(inflight) => inflight = << >>
          /\ last' = "OnMessage" =>
                /\ inflight # << >>
                /\ h'[1].message = inflight[1]
                /\ inflight' = Tail(inflight)
                /\ csv' = csv \o h'[1].r.written]_vars

C15_Witness ==
    /\ Handled
    /\ inflight = << >>
    /\ H.r.written # << >>
    /\ rowsThisConn = 1
    /\ nSaved = 2
    /\ endedBy # "none"
    /\ csv[Len(csv)] # csv[Len(csv) - 1]

\* C16: the record handed to the store has the eleven keys of the header in
\* the header's order, and the line written has one field for each, also
\* for a message without the optional properties
C16_RowMatchesHeader ==
    (Handled /\ H.r.submitted # << >>) =>
        LET rec == H.r.submitted[1]
        IN  /\ Len(rec) = 11
            /\ [i \in 1..Len(rec) |-> rec[i][1]] = COLUMNS
            /\ H.r.written # << >> =>
                  /\ csv[1] = COLUMNS
                  /\ Len(csv[Len(csv)]) = Len(csv[1])
                  /\ \A i \in 1..11 :
                        csv[Len(csv)][i] = CsvField(rec[i][2])

C16_Witness ==
    /\ Handled
    /\ H.message = Msg2
    /\ "mag" \notin DOMAIN H.message.doc.data.properties
    /\ H.geo = <<GeoFull>>
    /\ csv[Len(csv)] = <<"update", "", "x2", "", "", "", "-33.4", "-70.6",
                         "Athens", "Attica", "Greece">>

\* C17: a well-formed message whose write succeeds adds its line whether or
\* not the store already holds that line; the lines added since the load
\* are as many as the successful handlings
C17_NoDeduplication ==
    /\ Len(csv) - Len(start) = nSaved
    /\ (Handled /\ WellFormed(H.message) /\ H.io = <<"none">>) =>
          /\ Len(csv) = Len(H.before) + 1
          /\ csv[Len(csv)] = CsvRow(H.r.submitted[1])

C17_Witness ==
    /\ Handled
    /\ H.message = Msg1
    /\ H.io = <<"none">>
    /\ nSaved = 2
    /\ rowsThisConn = 1
    /\ csv[Len(csv)] = csv[Len(csv) - 1]
    /\ csv[Len(csv)][3] = "x1"

\* C18: the action of the record is the top-level action of the message,
\* also when the properties carry an action of their own; a message without
\* a top-level action gives no record
C18_ActionIsTopLevel ==
    Handled =>
        /\ H.r.submitted # << >> =>
              /\ H.r.submitted[1][1] = <<"action", H.message.doc.action>>
              /\ H.r.written # << >> =>
                    csv[Len(csv)][1] = H.message.doc.action.v
        /\ (H.message.json /\ IsDict(H.message.doc)
            /\ "action" \notin DOMAIN H.message.doc) =>
              /\ H.r.submitted = << >>
              /\ csv = H.before

C18_Witness ==
    /\ Handled
    /\ H.message = Msg2
    /\ H.message.doc.data.properties.action = JS("inner")
    /\ H.io = <<"none">>
    /\ csv[Len(csv)][1] = "update"

====
